---- MODULE Spec2Model ----
(***************************************************************************)
(* Authentication and authorization core of the travel-blog backend:       *)
(* the credential store, the token service, the authentication gate, the   *)
(* login and registration handlers and the admin-gated article handlers.   *)
(*                                                                         *)
(* Strings the code transforms character by character (e-mail addresses,   *)
(* the token's subject claim, titles and slugs) are sequences of character *)
(* codes; strings the code only compares are TLA+ strings.                 *)
(* Time is counted in ticks; TicksPerSecond ticks make one second, so that *)
(* the truncation of datetimes to whole seconds in the token is visible.   *)
(***************************************************************************)
EXTENDS Integers, Sequences, FiniteSets, TLC

VARIABLES users, pending, now, issued, accounts, last, articles, files, saved, saving,
          search

vars ==
    <<users, pending, now, issued, accounts, last, articles, files, saved, saving, search>>

(***************************************************************************)
(* Bounds of the model.                                                    *)
(***************************************************************************)
TicksPerSecond == 2
StartTime == 7
MaxFineTicks == 2
MaxJumps == 1
NumWorkers == 2

Workers == 1..NumWorkers

(***************************************************************************)
(* Configuration (app/core/config.py).                                     *)
(***************************************************************************)
SECRET_KEY == "server-secret"
OTHER_KEY == "other-secret"
ACCESS_TOKEN_EXPIRE_MINUTES == 30

\* timedelta(minutes=m) in ticks
Minutes(m) == m * 60 * TicksPerSecond

(***************************************************************************)
(* Character-level helpers.                                                *)
(***************************************************************************)
\* str.lower() on one character code
LowerChar(c) == IF c \in 65..90 THEN c + 32 ELSE c

LowerStr(s) == [i \in 1..Len(s) |-> LowerChar(s[i])]

\* str(n) for a non-negative integer: its decimal digits
RECURSIVE StrOfNat(_)
StrOfNat(n) == IF n < 10 THEN <<48 + n>> ELSE Append(StrOfNat(n \div 10), 48 + (n % 10))

IsIntStr(s) == Len(s) > 0 /\ \A i \in 1..Len(s) : s[i] \in 48..57

\* int(s) for a string of decimal digits
RECURSIVE IntOfStr(_)
IntOfStr(s) ==
    IF Len(s) = 0 THEN 0
    ELSE 10 * IntOfStr(SubSeq(s, 1, Len(s) - 1)) + (s[Len(s)] - 48)

(***************************************************************************)
(* E-mail validation of the registration schema (EmailStr): exactly one    *)
(* "@", a non-empty local part, a dotted domain; the validated value is    *)
(* the normalised address, whose domain part is lowercased.                *)
(***************************************************************************)
AtPositions(s) == {i \in 1..Len(s) : s[i] = 64}   \* "@"

EmailValid(s) ==
    /\ Cardinality(AtPositions(s)) = 1
    /\ LET p == CHOOSE i \in AtPositions(s) : TRUE
       IN /\ p > 1
          /\ p < Len(s)
          /\ \E j \in (p + 2)..(Len(s) - 1) : s[j] = 46   \* "."

NormalizeEmail(s) ==
    LET p == CHOOSE i \in AtPositions(s) : TRUE
    IN SubSeq(s, 1, p) \o LowerStr(SubSeq(s, p + 1, Len(s)))

(***************************************************************************)
(* Password hashing (app/core/security.py): Argon2 with a random salt.     *)
(* A hash is the pair of its salt and the password it was derived from;    *)
(* verification recomputes the digest under the stored salt.               *)
(***************************************************************************)
Salts == {"s1", "s2"}

get_password_hash(password, salt) == [salt |-> salt, digest |-> password]

verify_password(plain, hashed) == get_password_hash(plain, hashed.salt) = hashed

(***************************************************************************)
(* Token service (app/core/security.py, python-jose).  A token is the      *)
(* key it was signed with and its claims; a string that is no JWS at all   *)
(* has wf = FALSE.  The sub claim is absent, a string or an integer.       *)
(***************************************************************************)
Absent == [t |-> "absent", v |-> <<>>]
StrClaim(s) == [t |-> "str", v |-> s]
IntClaim(n) == [t |-> "int", v |-> StrOfNat(n)]

NoToken == [present |-> FALSE, wf |-> FALSE, key |-> "", sub |-> Absent, exp |-> 0]
GarbageToken == [present |-> TRUE, wf |-> FALSE, key |-> "", sub |-> Absent, exp |-> 0]

\* jwt.encode(claims, key): datetimes in exp are truncated to whole seconds
jwt_encode(sub, expire, key) ==
    [present |-> TRUE, wf |-> TRUE, key |-> key, sub |-> sub,
     exp |-> expire \div TicksPerSecond]

\* An optional timedelta is a set with at most one element; {} is None.
\* `if expires_delta:` is false for None and for timedelta(0).
Truthy(expires_delta) == expires_delta # {} /\ expires_delta # {0}

create_access_token(subject, expires_delta, t) ==
    LET expire == IF Truthy(expires_delta)
                  THEN t + (CHOOSE d \in expires_delta : TRUE)
                  ELSE t + Minutes(ACCESS_TOKEN_EXPIRE_MINUTES)
    IN jwt_encode(StrClaim(StrOfNat(subject)), expire, SECRET_KEY)

\* variant: a decode that does not validate the exp claim
jwt_decode_fails_ignoring_exp(tok, t) ==
    \/ ~tok.wf
    \/ tok.key # SECRET_KEY
    \/ tok.sub.t = "int"

\* jwt.decode(token, SECRET_KEY, algorithms=[ALGORITHM]) raises JWTError
jwt_decode_fails(tok, t) ==
    \/ ~tok.wf                                  \* not a JWS
    \/ tok.key # SECRET_KEY                     \* signature verification failed
    \/ tok.exp < t \div TicksPerSecond          \* ExpiredSignatureError
    \/ tok.sub.t = "int"                        \* JWTClaimsError: subject must be a string

\* TokenPayload(**payload) raises ValidationError: sub is Optional[int]
payload_invalid(tok) == tok.sub.t = "str" /\ ~IsIntStr(tok.sub.v)

(***************************************************************************)
(* Credential store (app/models/user.py).                                  *)
(***************************************************************************)
EmailA == <<97, 64, 120, 46, 99>>         \* a@x.c
EmailAUpper == <<97, 64, 88, 46, 99>>     \* a@X.c
EmailNoAt == <<97, 120>>                  \* ax
EmailUser == <<117, 64, 120, 46, 99>>     \* u@x.c
EmailAdmin == <<114, 64, 120, 46, 99>>    \* r@x.c
EmailInactive == <<105, 64, 120, 46, 99>> \* i@x.c
EmailUnknown == <<122, 64, 120, 46, 99>>  \* z@x.c

Passwords == {"pw1", "pw2"}
FullNames == {"A", ""}

test_user ==
    [id |-> 1, email |-> EmailUser, full_name |-> "Test User",
     hashed_password |-> get_password_hash("pw1", "s1"),
     is_active |-> TRUE, is_admin |-> FALSE, language |-> "it"]

admin_user ==
    [id |-> 2, email |-> EmailAdmin, full_name |-> "Admin User",
     hashed_password |-> get_password_hash("pw1", "s2"),
     is_active |-> TRUE, is_admin |-> TRUE, language |-> "it"]

inactive_user ==
    [id |-> 3, email |-> EmailInactive, full_name |-> "Former User",
     hashed_password |-> get_password_hash("pw1", "s1"),
     is_active |-> FALSE, is_admin |-> FALSE, language |-> "it"]

SeedUsers == {test_user, admin_user, inactive_user}

\* the response schema User: every column but hashed_password
UserView(u) ==
    [id |-> u.id, email |-> u.email, full_name |-> u.full_name,
     is_active |-> u.is_active, is_admin |-> u.is_admin, language |-> u.language]

NoUser ==
    [id |-> 0, email |-> <<>>, full_name |-> "", is_active |-> FALSE,
     is_admin |-> FALSE, language |-> ""]

\* db.query(User).filter(User.email == e).first(): a set of zero or one row
UsersByEmail(store, e) == {u \in store : u.email = e}
UsersById(store, i) == {u \in store : u.id = i}

\* INTEGER PRIMARY KEY: the next rowid is one more than the largest
NextUserId(store) ==
    IF store = {} THEN 1
    ELSE (CHOOSE m \in {u.id : u \in store} : \A u \in store : u.id <= m) + 1

\* variant: a column without the unique index
EmailUnique_no_index(store, e) == TRUE

\* the unique index on users.email
EmailUnique(store, e) == UsersByEmail(store, e) = {}

(***************************************************************************)
(* Responses.  `last` is the response to the request handled last, with    *)
(* the inputs of that request.                                             *)
(***************************************************************************)
\* no SavedArticle row
NoBookmark == [id |-> 0, user_id |-> 0, article_id |-> 0]

Resp(op, status, detail) ==
    [op |-> op, status |-> status, detail |-> detail, at |-> now, token |-> NoToken,
     username |-> <<>>, password |-> "", full_name |-> "", user |-> NoUser,
     access_token |-> NoToken, delta |-> {}, caller |-> NoUser,
     article_id |-> 0, bookmark |-> NoBookmark, listing |-> {}]

Idle == [pc |-> "idle", raw |-> <<>>, email |-> <<>>, password |-> "", full_name |-> ""]

\* a save_article request between its lookup and its insert
IdleSave == [pc |-> "idle", op |-> "", token |-> NoToken, caller |-> NoUser, article_id |-> 0]

(***************************************************************************)
(* Authentication gate (app/api/deps.py).                                  *)
(***************************************************************************)
\* variant: a gate that does not check the result of the lookup
get_current_user_unchecked_lookup(tok, t, store) ==
    IF ~tok.present
    THEN [status |-> 401, detail |-> "Not authenticated", user |-> NoUser]
    ELSE IF jwt_decode_fails(tok, t) \/ payload_invalid(tok)
    THEN [status |-> 403, detail |-> "Could not validate credentials", user |-> NoUser]
    ELSE LET found == IF tok.sub.t = "absent" THEN {}
                      ELSE UsersById(store, IntOfStr(tok.sub.v))
         IN [status |-> 200, detail |-> "",
             user |-> IF found = {} THEN NoUser ELSE CHOOSE u \in found : TRUE]

\* variant: a bearer scheme that passes a missing token on to the decoder
get_current_user_missing_as_invalid(tok, t, store) ==
    IF ~tok.present \/ jwt_decode_fails(tok, t) \/ payload_invalid(tok)
    THEN [status |-> 403, detail |-> "Could not validate credentials", user |-> NoUser]
    ELSE LET found == IF tok.sub.t = "absent" THEN {}
                      ELSE UsersById(store, IntOfStr(tok.sub.v))
         IN IF found = {}
            THEN [status |-> 404, detail |-> "User not found", user |-> NoUser]
            ELSE [status |-> 200, detail |-> "", user |-> CHOOSE u \in found : TRUE]

\* variant: a gate that turns away a principal whose is_active is false
get_current_user_active_only(tok, t, store) ==
    IF ~tok.present
    THEN [status |-> 401, detail |-> "Not authenticated", user |-> NoUser]
    ELSE IF jwt_decode_fails(tok, t) \/ payload_invalid(tok)
    THEN [status |-> 403, detail |-> "Could not validate credentials", user |-> NoUser]
    ELSE LET found == IF tok.sub.t = "absent" THEN {}
                      ELSE {u \in UsersById(store, IntOfStr(tok.sub.v)) : u.is_active}
         IN IF found = {}
            THEN [status |-> 404, detail |-> "User not found", user |-> NoUser]
            ELSE [status |-> 200, detail |-> "", user |-> CHOOSE u \in found : TRUE]

\* variant: a gate that reports an unknown subject as an invalid token
get_current_user_not_found_as_invalid(tok, t, store) ==
    IF ~tok.present
    THEN [status |-> 401, detail |-> "Not authenticated", user |-> NoUser]
    ELSE LET found == IF tok.sub.t = "absent" THEN {}
                      ELSE UsersById(store, IntOfStr(tok.sub.v))
         IN IF jwt_decode_fails(tok, t) \/ payload_invalid(tok) \/ found = {}
            THEN [status |-> 403, detail |-> "Could not validate credentials",
                  user |-> NoUser]
            ELSE [status |-> 200, detail |-> "", user |-> CHOOSE u \in found : TRUE]

\* OAuth2PasswordBearer, then get_current_user
get_current_user(tok, t, store) ==
    IF ~tok.present
    THEN [status |-> 401, detail |-> "Not authenticated", user |-> NoUser]
    ELSE IF jwt_decode_fails(tok, t) \/ payload_invalid(tok)
    THEN [status |-> 403, detail |-> "Could not validate credentials", user |-> NoUser]
    ELSE LET found == IF tok.sub.t = "absent" THEN {}
                      ELSE UsersById(store, IntOfStr(tok.sub.v))
         IN IF found = {}
            THEN [status |-> 404, detail |-> "User not found", user |-> NoUser]
            ELSE [status |-> 200, detail |-> "", user |-> CHOOSE u \in found : TRUE]

(***************************************************************************)
(* Inputs.                                                                 *)
(***************************************************************************)
RegisterEmails == {EmailA, EmailAUpper, EmailNoAt}
LoginEmails == {EmailA, EmailAUpper, EmailUser, EmailInactive, EmailUnknown}
Subjects == {1, 9}
Deltas == {{}, {0}, {-1}, {-TicksPerSecond}, {TicksPerSecond}}
\* sub claims of tokens made with jwt.encode directly, as the tests make them:
\* none, "1", "9", "x", and the integer 1
CraftedSubs == {Absent, StrClaim(<<49>>), StrClaim(<<57>>), StrClaim(<<120>>), IntClaim(1)}

CraftedTokens(t) ==
    {jwt_encode(s, e, k) :
        k \in {SECRET_KEY, OTHER_KEY}, s \in CraftedSubs,
        e \in {t - TicksPerSecond, t + TicksPerSecond}}

PresentedTokens ==
    {NoToken, GarbageToken} \cup {i.token : i \in issued} \cup CraftedTokens(now)

(***************************************************************************)
(* AIService.process_query (app/services/ai_service.py).  The function     *)
(* awaits three kinds of external call: the relevance check and the        *)
(* structuring call, both to the completion API, and the web and image     *)
(* searches.  A step runs the function up to its next await; the outcome   *)
(* of the call is the environment's choice.                                *)
(***************************************************************************)
Queries == {<<"beaches">>, <<"Tenerife", "beaches">>}
Languages == {"es", "en", "it", "fr"}

LowerWord(w) == IF w = "Tenerife" THEN "tenerife" ELSE w

\* "tenerife" in user_query.lower()
MentionsTenerife(q) == \E i \in 1..Len(q) : LowerWord(q[i]) = "tenerife"

\* off_topic_messages.get(language, off_topic_messages["es"]), a message
\* named by its language
OffTopicMessage(language) == IF language \in {"es", "en", "it"} THEN language ELSE "es"

NoResponse == [results |-> "", off_topic |-> FALSE, message |-> "", raised |-> FALSE]
OffTopicResponse(language) ==
    [results |-> "empty", off_topic |-> TRUE, message |-> OffTopicMessage(language),
     raised |-> FALSE]
MockResponse == [results |-> "demo", off_topic |-> FALSE, message |-> "", raised |-> FALSE]
StructuredResponse(results) ==
    [results |-> results, off_topic |-> FALSE, message |-> "", raised |-> FALSE]
\* an exception that leaves process_query
Raised == [results |-> "", off_topic |-> FALSE, message |-> "", raised |-> TRUE]

IdleSearch ==
    [pc |-> "idle", query |-> <<>>, is_suggestion |-> FALSE, language |-> "", key |-> FALSE,
     calls |-> {}, relevance |-> "", completion |-> "", response |-> NoResponse]

\* what the completion API can answer to the relevance prompt: the two
\* values of is_tenerife_related, a null, an object without the key, a body
\* that is no JSON, and a failed call
RelevanceOutcomes == {"true", "false", "null", "missing", "not_json", "error"}

\* _check_tenerife_relevance: result.get("is_tenerife_related", True), and
\* True when the call or the parsing raises; the truth value of the result
check_tenerife_relevance(outcome) == outcome \notin {"false", "null"}

\* what Tavily can answer: results, no results, an HTTP error or timeout
WebOutcomes == {"results", "empty", "error"}

\* variant: a web search that lets the error of the HTTP call through
search_web_propagating(outcome) ==
    IF outcome = "results" THEN "context"
    ELSE IF outcome = "error" THEN "raise" ELSE "mock_data"

\* SearchService.search_web: the context, or the mock data when the call
\* fails or finds nothing
search_web(outcome) == IF outcome = "results" THEN "context" ELSE "mock_data"

\* what the completion API can answer to the structuring prompt: a failed
\* call, a body that is no JSON, JSON that is no object, an object without
\* results, an empty result list, and a list of results
CompletionOutcomes ==
    {"error", "not_json", "not_object", "no_results", "empty_results", "results"}

\* the image searches and SearchResponse(**data) for a list of results: an
\* image found online, a local image, a failure of the local matching, and
\* a result that is not a valid ActivityResult
ImageOutcomes == {"online", "local", "error", "invalid_result"}

\* the call of process_query, up to the relevance check or, for a
\* suggestion, up to the web search
Query(q, is_suggestion, language, key) ==
    /\ search.pc = "idle"
    /\ search' = [IdleSearch EXCEPT
                    !.pc = IF is_suggestion THEN "search_web" ELSE "relevance",
                    !.query = IF is_suggestion /\ ~MentionsTenerife(q)
                              THEN q \o <<"a", "Tenerife">> ELSE q,
                    !.is_suggestion = is_suggestion,
                    !.language = language,
                    !.key = key]
    /\ UNCHANGED <<users, pending, now, issued, accounts, last, articles, files, saved, saving>>

\* `if not is_suggestion:` the relevance check; without an API key it
\* answers True and calls nothing
CheckRelevance(outcome) ==
    /\ search.pc = "relevance"
    /\ IF ~search.key
       THEN /\ outcome = "true"
            /\ search' = [search EXCEPT !.pc = "search_web", !.relevance = "no_key"]
       ELSE IF check_tenerife_relevance(outcome)
       THEN search' = [search EXCEPT !.pc = "search_web", !.relevance = outcome,
                                     !.calls = @ \cup {"relevance"}]
       ELSE search' = [search EXCEPT !.pc = "done", !.relevance = outcome,
                                     !.calls = @ \cup {"relevance"},
                                     !.response = OffTopicResponse(search.language)]
    /\ UNCHANGED <<users, pending, now, issued, accounts, last, articles, files, saved, saving>>

\* the two web searches; they are outside the try block
SearchWeb(activities, reviews) ==
    /\ search.pc = "search_web"
    /\ IF "raise" \in {search_web(activities), search_web(reviews)}
       THEN search' = [search EXCEPT !.pc = "done", !.calls = @ \cup {"search_web"},
                                     !.response = Raised]
       ELSE search' = [search EXCEPT !.pc = "completion", !.calls = @ \cup {"search_web"}]
    /\ UNCHANGED <<users, pending, now, issued, accounts, last, articles, files, saved, saving>>

\* the try block up to json.loads(content) and data.get("results")
Complete(outcome) ==
    /\ search.pc = "completion"
    /\ IF ~search.key
       THEN /\ outcome = "error"
            /\ search' = [search EXCEPT !.pc = "done", !.completion = "no_key",
                                        !.response = MockResponse]
       ELSE IF outcome = "results"
       THEN search' = [search EXCEPT !.pc = "images", !.completion = outcome,
                                     !.calls = @ \cup {"completion"}]
       ELSE search' = [search EXCEPT
                         !.pc = "done", !.completion = outcome,
                         !.calls = @ \cup {"completion"},
                         !.response = IF outcome = "empty_results"
                                      THEN StructuredResponse("empty")
                                      ELSE MockResponse]
    /\ UNCHANGED <<users, pending, now, issued, accounts, last, articles, files, saved, saving>>

\* the loop over the results and `return SearchResponse(**data)`
AddImages(outcome) ==
    /\ search.pc = "images"
    /\ search' = [search EXCEPT
                    !.pc = "done",
                    !.calls = @ \cup {"image"},
                    !.response = IF outcome \in {"online", "local"}
                                 THEN StructuredResponse(outcome)
                                 ELSE MockResponse]
    /\ UNCHANGED <<users, pending, now, issued, accounts, last, articles, files, saved, saving>>

\* the next request
Answered ==
    /\ search.pc = "done"
    /\ search' = IdleSearch
    /\ UNCHANGED <<users, pending, now, issued, accounts, last, articles, files, saved, saving>>

Ask ==
    \E q \in Queries : \E s \in BOOLEAN : \E l \in Languages : \E key \in BOOLEAN :
        Query(q, s, l, key)

Relevance == \E o \in RelevanceOutcomes : CheckRelevance(o)

Web == \E a \in WebOutcomes : \E r \in WebOutcomes : SearchWeb(a, r)

Completion == \E o \in CompletionOutcomes : Complete(o)

Images == \E o \in ImageOutcomes : AddImages(o)

NextSearch == Ask \/ Relevance \/ Web \/ Completion \/ Images \/ Answered

(***************************************************************************)
(* Initial state: the store as the fixtures and the import script seed it. *)
(***************************************************************************)
Init ==
    /\ users = SeedUsers
    /\ pending = [w \in Workers |-> Idle]
    /\ now = StartTime
    /\ issued = {}
    /\ accounts = {}
    /\ last = [Resp("none", 0, "") EXCEPT !.at = StartTime]
    /\ articles = {}
    /\ files = {}
    /\ saved = {}
    /\ saving = [w \in Workers |-> IdleSave]
    /\ search = IdleSearch

(***************************************************************************)
(* POST /auth/register (app/api/endpoints/auth.py).  The handler reads the *)
(* store, then writes it: two steps, between which other requests run.     *)
(***************************************************************************)
\* variant: a handler that inserts without looking the e-mail up
RegisterLookup_without_lookup(w, email, password, full_name) ==
    /\ pending[w].pc = "idle"
    /\ EmailValid(email)
    /\ pending' = [pending EXCEPT ![w] =
                      [pc |-> "insert", raw |-> email, email |-> NormalizeEmail(email),
                       password |-> password, full_name |-> full_name]]
    /\ UNCHANGED <<users, now, issued, accounts, last, articles, files, saved, saving, search>>

RegisterLookup(w, email, password, full_name) ==
    /\ pending[w].pc = "idle"
    /\ IF ~EmailValid(email)
       THEN /\ last' = [Resp("register", 422, "value is not a valid email address")
                          EXCEPT !.username = email, !.password = password,
                                 !.full_name = full_name]
            /\ UNCHANGED pending
       ELSE IF UsersByEmail(users, NormalizeEmail(email)) # {}
       THEN /\ last' = [Resp("register", 400,
                             "The user with this username already exists in the system.")
                          EXCEPT !.username = email, !.password = password,
                                 !.full_name = full_name]
            /\ UNCHANGED pending
       ELSE /\ pending' = [pending EXCEPT ![w] =
                              [pc |-> "insert", raw |-> email,
                               email |-> NormalizeEmail(email),
                               password |-> password, full_name |-> full_name]]
            /\ UNCHANGED last
    /\ UNCHANGED <<users, now, issued, accounts, articles, files, saved, saving, search>>

\* variant: an insert that replaces the row holding the e-mail
RegisterInsert_replacing(w) ==
    /\ pending[w].pc = "insert"
    /\ LET p == pending[w]
       IN \E salt \in Salts :
            LET row == [id |-> NextUserId(users), email |-> p.email,
                        full_name |-> p.full_name,
                        hashed_password |-> get_password_hash(p.password, salt),
                        is_active |-> TRUE, is_admin |-> FALSE, language |-> "it"]
            IN /\ users' = (users \ UsersByEmail(users, p.email)) \cup {row}
               /\ accounts' = accounts \cup
                      {[email |-> p.raw, password |-> p.password, id |-> row.id]}
               /\ last' = [Resp("register", 200, "")
                             EXCEPT !.username = p.raw, !.password = p.password,
                                    !.full_name = p.full_name,
                                    !.user = UserView(row)]
    /\ pending' = [pending EXCEPT ![w] = Idle]
    /\ UNCHANGED <<now, issued, articles, files, saved, saving, search>>

RegisterInsert(w) ==
    /\ pending[w].pc = "insert"
    /\ LET p == pending[w]
       IN \E salt \in Salts :
            LET row == [id |-> NextUserId(users), email |-> p.email,
                        full_name |-> p.full_name,
                        hashed_password |-> get_password_hash(p.password, salt),
                        is_active |-> TRUE, is_admin |-> FALSE, language |-> "it"]
            IN IF EmailUnique(users, p.email)
               THEN /\ users' = users \cup {row}
                    /\ accounts' = accounts \cup
                           {[email |-> p.raw, password |-> p.password, id |-> row.id]}
                    /\ last' = [Resp("register", 200, "")
                                  EXCEPT !.username = p.raw, !.password = p.password,
                                         !.full_name = p.full_name,
                                         !.user = UserView(row)]
               ELSE \* IntegrityError from db.commit(), not handled
                    /\ last' = [Resp("register", 500, "Internal Server Error")
                                  EXCEPT !.username = p.raw, !.password = p.password,
                                         !.full_name = p.full_name]
                    /\ UNCHANGED <<users, accounts>>
    /\ pending' = [pending EXCEPT ![w] = Idle]
    /\ UNCHANGED <<now, issued, articles, files, saved, saving, search>>

(***************************************************************************)
(* POST /auth/login.                                                       *)
(***************************************************************************)
\* variant: a handler that tests is_active before the password
LoginResponse_active_first(username, password, t, store) ==
    LET found == UsersByEmail(store, username)
        user == CHOOSE u \in found : TRUE
        req == [Resp("login", 0, "") EXCEPT !.username = username, !.password = password]
    IN IF found = {}
       THEN [req EXCEPT !.status = 400, !.detail = "Incorrect email or password"]
       ELSE IF ~user.is_active
       THEN [req EXCEPT !.status = 400, !.detail = "Inactive user"]
       ELSE IF ~verify_password(password, user.hashed_password)
       THEN [req EXCEPT !.status = 400, !.detail = "Incorrect email or password"]
       ELSE [req EXCEPT !.status = 200,
                        !.delta = {Minutes(ACCESS_TOKEN_EXPIRE_MINUTES)},
                        !.access_token =
                            create_access_token(user.id,
                                {Minutes(ACCESS_TOKEN_EXPIRE_MINUTES)}, t)]

\* variant: a login that never reads is_active
LoginResponse_without_active_check(username, password, t, store) ==
    LET found == UsersByEmail(store, username)
        user == CHOOSE u \in found : TRUE
        req == [Resp("login", 0, "") EXCEPT !.username = username, !.password = password]
    IN IF found = {} \/ ~verify_password(password, user.hashed_password)
       THEN [req EXCEPT !.status = 400, !.detail = "Incorrect email or password"]
       ELSE [req EXCEPT !.status = 200,
                        !.delta = {Minutes(ACCESS_TOKEN_EXPIRE_MINUTES)},
                        !.access_token =
                            create_access_token(user.id,
                                {Minutes(ACCESS_TOKEN_EXPIRE_MINUTES)}, t)]

LoginResponse(username, password, t, store) ==
    LET found == UsersByEmail(store, username)
        user == CHOOSE u \in found : TRUE
        req == [Resp("login", 0, "") EXCEPT !.username = username, !.password = password]
    IN IF found = {} \/ ~verify_password(password, user.hashed_password)
       THEN [req EXCEPT !.status = 400, !.detail = "Incorrect email or password"]
       ELSE IF ~user.is_active
       THEN [req EXCEPT !.status = 400, !.detail = "Inactive user"]
       ELSE [req EXCEPT !.status = 200,
                        !.delta = {Minutes(ACCESS_TOKEN_EXPIRE_MINUTES)},
                        !.access_token =
                            create_access_token(user.id,
                                {Minutes(ACCESS_TOKEN_EXPIRE_MINUTES)}, t)]

Login(username, password) ==
    /\ last' = LoginResponse(username, password, now, users)
    /\ UNCHANGED <<users, pending, now, issued, accounts, articles, files, saved, saving, search>>

(***************************************************************************)
(* A direct call of create_access_token(subject, expires_delta).           *)
(***************************************************************************)
IssueToken(subject, delta) ==
    /\ last' = [Resp("create_access_token", 0, "")
                  EXCEPT !.access_token = create_access_token(subject, delta, now),
                         !.delta = delta]
    /\ UNCHANGED <<users, pending, now, issued, accounts, articles, files, saved, saving, search>>

(***************************************************************************)
(* The client keeps the token it was just given, with the lifetime it was  *)
(* issued for, and presents it in later requests; it holds one token at a  *)
(* time.                                                                   *)
(***************************************************************************)
Retain ==
    /\ last.access_token.present
    /\ issued' = {[token |-> last.access_token, delta |-> last.delta]}
    /\ issued' # issued
    /\ UNCHANGED <<users, pending, now, accounts, last, articles, files, saved, saving, search>>

(***************************************************************************)
(* GET /auth/me.                                                           *)
(***************************************************************************)
GetSelf(tok) ==
    /\ LET r == get_current_user(tok, now, users)
       IN last' = [Resp("read_users_me", r.status, r.detail)
                     EXCEPT !.token = tok,
                            !.user = IF r.status = 200 THEN UserView(r.user) ELSE NoUser]
    /\ UNCHANGED <<users, pending, now, issued, accounts, articles, files, saved, saving, search>>

(***************************************************************************)
(* The wall clock: it advances by one tick, or by a whole token lifetime.  *)
(***************************************************************************)
TickFine ==
    /\ (now - StartTime) % Minutes(ACCESS_TOKEN_EXPIRE_MINUTES) < MaxFineTicks
    /\ now' = now + 1
    /\ UNCHANGED <<users, pending, issued, accounts, last, articles, files, saved, saving, search>>

TickJump ==
    /\ (now - StartTime) \div Minutes(ACCESS_TOKEN_EXPIRE_MINUTES) < MaxJumps
    /\ now' = now + Minutes(ACCESS_TOKEN_EXPIRE_MINUTES)
    /\ UNCHANGED <<users, pending, issued, accounts, last, articles, files, saved, saving, search>>

Register ==
    \E w \in Workers : \E e \in RegisterEmails : \E p \in Passwords : \E n \in FullNames :
        RegisterLookup(w, e, p, n)

Insert == \E w \in Workers : RegisterInsert(w)

LoginAny == \E e \in LoginEmails : \E p \in Passwords : Login(e, p)

Issue == \E s \in Subjects : \E d \in Deltas : IssueToken(s, d)

Me == \E tok \in PresentedTokens : GetSelf(tok)

(***************************************************************************)
(* Registration and login, with concurrent registrations.                  *)
(***************************************************************************)
NextAccounts == Register \/ Insert \/ LoginAny

SpecAccounts == Init /\ [][NextAccounts]_vars

(***************************************************************************)
(* Registration alone: concurrent register_user requests and nothing else. *)
(***************************************************************************)
NextRegister == Register \/ Insert

SpecRegister == Init /\ [][NextRegister]_vars

(***************************************************************************)
(* Token issuance and the authentication gate, as time passes.             *)
(***************************************************************************)
NextGate == LoginAny \/ Issue \/ Retain \/ Me \/ TickFine \/ TickJump

SpecGate == Init /\ [][NextGate]_vars

(***************************************************************************)
(* The life of a token minted at login.  The client logs in, keeps the     *)
(* token and presents it to GET /auth/me while time passes, a registration *)
(* runs, and the is_active column of a row is cleared.  No handler of the  *)
(* API writes is_active; clearing it is an edit of the users table made    *)
(* outside the API.                                                        *)
(***************************************************************************)
SetInactive(id) ==
    /\ \E u \in UsersById(users, id) :
          /\ u.is_active
          /\ users' = (users \ {u}) \cup {[u EXCEPT !.is_active = FALSE]}
    /\ UNCHANGED <<pending, now, issued, accounts, last, articles, files, saved, saving, search>>

Deactivate == \E u \in SeedUsers : SetInactive(u.id)

LoginSeeded == \E u \in SeedUsers : \E p \in Passwords : Login(u.email, p)

RegisterAlone == \E p \in Passwords : RegisterLookup(1, EmailA, p, "A")

InsertAlone == RegisterInsert(1)

MeHeld == \E i \in issued : GetSelf(i.token)

NextSession ==
    \/ LoginSeeded \/ Retain \/ MeHeld \/ RegisterAlone \/ InsertAlone
    \/ Deactivate \/ TickFine \/ TickJump

SpecSession == Init /\ [][NextSession]_vars

(***************************************************************************)
(* Content store (app/models/blog.py) and the admin-gated article handlers *)
(* (app/api/endpoints/blog.py).  An optional value is a set with at most   *)
(* one element.                                                            *)
(***************************************************************************)
MaxArticleId == 1

TitleAb == <<65, 32, 98>>   \* "A b"
TitleC == <<99>>            \* "c"
Titles == {TitleAb}
SlugInputs == {{}, {<<99>>}}
ArticleIdInputs == 1..(MaxArticleId + 1)
ImagePrefix == <<105, 109, 97, 103, 101, 47>>                 \* "image/"
ImagePng == <<105, 109, 97, 103, 101, 47, 112, 110, 103>>     \* "image/png"
TextPlain == <<116, 101, 120, 116, 47, 112, 108, 97, 105, 110>> \* "text/plain"
ContentTypes == {ImagePng, TextPlain}
UploadIds == {"u1"}

StartsWith(s, prefix) == Len(prefix) <= Len(s) /\ SubSeq(s, 1, Len(prefix)) = prefix

\* title.lower().replace(" ", "-").replace("'", "")
RECURSIVE Slugify(_)
Slugify(title) ==
    IF Len(title) = 0 THEN <<>>
    ELSE LET c == LowerChar(Head(title))
             rest == Slugify(Tail(title))
         IN IF c = 32 THEN <<45>> \o rest
            ELSE IF c = 39 THEN rest
            ELSE <<c>> \o rest

ArticlesById(store, i) == {a \in store : a.id = i}

NextArticleId(store) ==
    IF store = {} THEN 1
    ELSE (CHOOSE m \in {a.id : a \in store} : \A a \in store : a.id <= m) + 1

\* the unique index on articles.slug; NULL slugs do not collide
SlugUnique(store, slug) == slug = {} \/ \A a \in store : a.slug # slug

\* the tokens presented to the article handlers
BlogTokens(t) ==
    {NoToken, GarbageToken}
    \cup {create_access_token(u.id, {Minutes(ACCESS_TOKEN_EXPIRE_MINUTES)}, t) :
              u \in {test_user, admin_user}}
    \cup {jwt_encode(StrClaim(StrOfNat(admin_user.id)), t - TicksPerSecond, SECRET_KEY),
          jwt_encode(StrClaim(StrOfNat(admin_user.id)), t + TicksPerSecond, OTHER_KEY)}

\* Depends(deps.get_current_user): the response so far, and the principal
Authenticated(op, tok) ==
    LET r == get_current_user(tok, now, users)
    IN [Resp(op, r.status, r.detail)
          EXCEPT !.token = tok,
                 !.caller = IF r.status = 200 THEN UserView(r.user) ELSE NoUser]

\* variant: a check that lets every authenticated principal through
AdminDenied_never(resp) == FALSE

\* variant: a check that uses the role the principal had when the store
\* was loaded
AdminDenied_as_loaded(resp) ==
    ~\E u \in SeedUsers : u.id = resp.caller.id /\ u.is_admin

\* `if not current_user.is_admin: raise HTTPException(status_code=403, ...)`
AdminDenied(resp) == ~resp.caller.is_admin

\* db.add(article); db.commit(): the row, or IntegrityError (not handled)
InsertArticle(resp, row) ==
    IF SlugUnique(articles, row.slug)
    THEN /\ row.id <= MaxArticleId
         /\ articles' = articles \cup {row}
         /\ last' = [resp EXCEPT !.article_id = row.id]
    ELSE /\ last' = [resp EXCEPT !.status = 500, !.detail = "Internal Server Error"]
         /\ UNCHANGED articles

\* POST /blog
create_article_simple(tok, title, slug, is_published) ==
    /\ LET resp == Authenticated("create_article_simple", tok)
       IN IF resp.status # 200
          THEN last' = resp /\ UNCHANGED articles
          ELSE IF AdminDenied(resp)
          THEN /\ last' = [resp EXCEPT !.status = 403,
                                       !.detail = "Only admins can create articles"]
               /\ UNCHANGED articles
          ELSE InsertArticle(resp,
                   [id |-> NextArticleId(articles), slug |-> slug, title |-> title,
                    is_published |-> is_published, author_id |-> {resp.caller.id}])
    /\ UNCHANGED <<users, pending, now, issued, accounts, files, saved, saving, search>>

\* POST /blog/articles
create_article(tok, title, slug, is_published) ==
    /\ LET resp == Authenticated("create_article", tok)
       IN IF resp.status # 200
          THEN last' = resp /\ UNCHANGED articles
          ELSE IF AdminDenied(resp)
          THEN /\ last' = [resp EXCEPT !.status = 403,
                                       !.detail = "Only admins can create articles"]
               /\ UNCHANGED articles
          ELSE InsertArticle(resp,
                   [id |-> NextArticleId(articles),
                    slug |-> IF slug = {} \/ slug = {<<>>} THEN {Slugify(title)} ELSE slug,
                    title |-> title, is_published |-> FALSE, author_id |-> {}])
    /\ UNCHANGED <<users, pending, now, issued, accounts, files, saved, saving, search>>

\* the body of a PUT: title, is_published and slug, each a set with at
\* most one element, empty when the body does not supply the field
UpdateBody(title, is_published, slug) ==
    [title |-> title, is_published |-> is_published, slug |-> slug]

\* variant: an update schema that has a slug field too
ArticleUpdate_with_slug(body) == body

\* article_in.dict(exclude_unset=True): the fields the body supplies; the
\* schema has no slug field, and a slug in the body is dropped
ArticleUpdate(body) ==
    [title |-> body.title, is_published |-> body.is_published, slug |-> {}]

\* `for field, value in update_data.items(): setattr(article, field, value)`
SetAttrs(article, update_data) ==
    [article EXCEPT
       !.title = IF update_data.title = {} THEN @
                 ELSE CHOOSE x \in update_data.title : TRUE,
       !.is_published = IF update_data.is_published = {} THEN @
                        ELSE CHOOSE x \in update_data.is_published : TRUE,
       !.slug = IF update_data.slug = {} THEN @
                ELSE CHOOSE x \in update_data.slug : TRUE]

\* PUT /blog/{article_id}
update_article(tok, article_id, body) ==
    /\ LET resp == [Authenticated("update_article", tok) EXCEPT !.article_id = article_id]
           found == ArticlesById(articles, article_id)
           article == CHOOSE a \in found : TRUE
           updated == SetAttrs(article, ArticleUpdate(body))
       IN IF resp.status # 200
          THEN last' = resp /\ UNCHANGED articles
          ELSE IF AdminDenied(resp)
          THEN /\ last' = [resp EXCEPT !.status = 403,
                                       !.detail = "Only admins can update articles"]
               /\ UNCHANGED articles
          ELSE IF found = {}
          THEN /\ last' = [resp EXCEPT !.status = 404, !.detail = "Article not found"]
               /\ UNCHANGED articles
          ELSE /\ articles' = (articles \ {article}) \cup {updated}
               /\ last' = resp
    /\ UNCHANGED <<users, pending, now, issued, accounts, files, saved, saving, search>>

\* variant: a delete that looks the article up before it checks the role
delete_article_lookup_first(tok, article_id) ==
    /\ LET resp == [Authenticated("delete_article", tok) EXCEPT !.article_id = article_id]
           found == ArticlesById(articles, article_id)
       IN IF resp.status # 200
          THEN last' = resp /\ UNCHANGED articles
          ELSE IF found = {}
          THEN /\ last' = [resp EXCEPT !.status = 404, !.detail = "Article not found"]
               /\ UNCHANGED articles
          ELSE IF AdminDenied(resp)
          THEN /\ last' = [resp EXCEPT !.status = 403,
                                       !.detail = "Only admins can delete articles"]
               /\ UNCHANGED articles
          ELSE /\ articles' = articles \ found
               /\ last' = [resp EXCEPT !.detail = "Article deleted successfully"]
    /\ UNCHANGED <<users, pending, now, issued, accounts, files, saved, saving, search>>

\* DELETE /blog/{article_id}
delete_article(tok, article_id) ==
    /\ LET resp == [Authenticated("delete_article", tok) EXCEPT !.article_id = article_id]
           found == ArticlesById(articles, article_id)
       IN IF resp.status # 200
          THEN last' = resp /\ UNCHANGED articles
          ELSE IF AdminDenied(resp)
          THEN /\ last' = [resp EXCEPT !.status = 403,
                                       !.detail = "Only admins can delete articles"]
               /\ UNCHANGED articles
          ELSE IF found = {}
          THEN /\ last' = [resp EXCEPT !.status = 404, !.detail = "Article not found"]
               /\ UNCHANGED articles
          ELSE /\ articles' = articles \ found
               /\ last' = [resp EXCEPT !.detail = "Article deleted successfully"]
    /\ UNCHANGED <<users, pending, now, issued, accounts, files, saved, saving, search>>

\* POST /blog/upload-image; written is whether the file system took the file
upload_image(tok, content_type, uid, written) ==
    /\ LET resp == Authenticated("upload_image", tok)
       IN IF resp.status # 200
          THEN last' = resp /\ UNCHANGED files
          ELSE IF AdminDenied(resp)
          THEN /\ last' = [resp EXCEPT !.status = 403,
                                       !.detail = "Only admins can upload images"]
               /\ UNCHANGED files
          ELSE IF ~StartsWith(content_type, ImagePrefix)
          THEN /\ last' = [resp EXCEPT !.status = 400, !.detail = "File must be an image"]
               /\ UNCHANGED files
          ELSE IF ~written
          THEN /\ last' = [resp EXCEPT !.status = 500, !.detail = "Failed to save file"]
               /\ UNCHANGED files
          ELSE /\ files' = files \cup {uid}
               /\ last' = resp
    /\ UNCHANGED <<users, pending, now, issued, accounts, articles, saved, saving, search>>

CreateSimple ==
    \E tok \in BlogTokens(now) : \E t \in Titles : \E sl \in SlugInputs : \E pub \in BOOLEAN :
        create_article_simple(tok, t, sl, pub)

Create ==
    \E tok \in BlogTokens(now) : \E t \in Titles : \E sl \in SlugInputs : \E pub \in BOOLEAN :
        create_article(tok, t, sl, pub)

Update ==
    \E tok \in BlogTokens(now) : \E i \in ArticleIdInputs :
        \E t \in {{}, {TitleC}} : \E pub \in {{}, {TRUE}, {FALSE}} :
            update_article(tok, i, UpdateBody(t, pub, {}))

Delete == \E tok \in BlogTokens(now) : \E i \in ArticleIdInputs : delete_article(tok, i)

Upload ==
    \E tok \in BlogTokens(now) : \E ct \in ContentTypes : \E uid \in UploadIds :
        \E written \in BOOLEAN : upload_image(tok, ct, uid, written)

MeBlog == \E tok \in BlogTokens(now) : GetSelf(tok)

(***************************************************************************)
(* The article handlers behind the gate.                                   *)
(***************************************************************************)
NextBlog == CreateSimple \/ Create \/ Update \/ Delete \/ Upload \/ MeBlog

SpecBlog == Init /\ [][NextBlog]_vars

(***************************************************************************)
(* Bookmarks (SavedArticle, app/models/blog.py) and the listings.          *)
(* import_data.py loads articles into the store before the API serves      *)
(* requests; the content specifications start from such a store.           *)
(***************************************************************************)
MaxSavedId == 2

ImportedPublished ==
    [id |-> 1, slug |-> {<<112>>}, title |-> TitleAb, is_published |-> TRUE,
     author_id |-> {admin_user.id}]

ImportedDraft ==
    [id |-> 2, slug |-> {<<100>>}, title |-> TitleC, is_published |-> FALSE,
     author_id |-> {}]

ImportedStores == SUBSET {ImportedPublished, ImportedDraft}

InitContent ==
    /\ users = SeedUsers
    /\ pending = [w \in Workers |-> Idle]
    /\ now = StartTime
    /\ issued = {}
    /\ accounts = {}
    /\ last = [Resp("none", 0, "") EXCEPT !.at = StartTime]
    /\ articles \in ImportedStores
    /\ files = {}
    /\ saved = {}
    /\ saving = [w \in Workers |-> IdleSave]
    /\ search = IdleSearch

SaveRoutes == {"save_article", "save_article_alt"}
UnsaveRoutes == {"unsave_article", "unsave_article_alt", "unsave_article_post"}

\* variant: a bookmark lookup by article alone
SavedFor_any_user(store, uid, aid) == {s \in store : s.article_id = aid}

\* filter(user_id == current_user.id, article_id == article_id)
SavedFor(store, uid, aid) == {s \in store : s.user_id = uid /\ s.article_id = aid}

\* .first(): the row with the lowest id
FirstSaved(rows) == CHOOSE r \in rows : \A q \in rows : r.id <= q.id

NextSavedId(store) ==
    IF store = {} THEN 1
    ELSE 1 + (CHOOSE i \in {s.id : s \in store} : \A s \in store : s.id <= i)

\* response_model = schemas.SavedArticle: the fields the response schema
\* requires, and the attributes a models.SavedArticle row has
SavedArticleRequired == {"id", "article"}
SavedArticleColumns == {"id", "user_id", "article_id"}

\* the returned rows validated against the response model: a row without
\* a required attribute fails validation after the handler has returned,
\* and the request ends in 500 with no record in the body
Serialized(resp, rows) ==
    IF rows = {} \/ SavedArticleRequired \subseteq SavedArticleColumns
    THEN resp
    ELSE [resp EXCEPT !.status = 500, !.detail = "Internal Server Error",
                      !.bookmark = NoBookmark, !.listing = {}]

\* variant: a save that does not look the article up
SaveCheck_without_article_check(op, tok, article_id) ==
    LET resp == [Authenticated(op, tok) EXCEPT !.article_id = article_id]
        existing == SavedFor(saved, resp.caller.id, article_id)
    IN IF resp.status # 200
       THEN resp
       ELSE IF existing # {}
       THEN [resp EXCEPT !.bookmark = FirstSaved(existing)]
       ELSE resp

\* save_article up to `if saved: return saved`: the response so far
SaveCheck(op, tok, article_id) ==
    LET resp == [Authenticated(op, tok) EXCEPT !.article_id = article_id]
        existing == SavedFor(saved, resp.caller.id, article_id)
    IN IF resp.status # 200
       THEN resp
       ELSE IF ArticlesById(articles, article_id) = {}
       THEN [resp EXCEPT !.status = 404, !.detail = "Article not found"]
       ELSE IF existing # {}
       THEN [resp EXCEPT !.bookmark = FirstSaved(existing)]
       ELSE resp

NeedsInsert(resp) == resp.status = 200 /\ resp.bookmark = NoBookmark

\* POST /blog/save/{article_id} and POST /blog/{article_id}/save, a whole
\* request with no other request running beside it
save_article(op, tok, article_id) ==
    /\ LET resp == SaveCheck(op, tok, article_id)
           row == [id |-> NextSavedId(saved), user_id |-> resp.caller.id,
                   article_id |-> article_id]
       IN IF NeedsInsert(resp)
          THEN /\ row.id <= MaxSavedId
               /\ saved' = saved \cup {row}
               /\ last' = Serialized([resp EXCEPT !.bookmark = row], {row})
          ELSE /\ last' = Serialized(resp, {resp.bookmark} \ {NoBookmark})
               /\ UNCHANGED saved
    /\ UNCHANGED <<users, pending, now, issued, accounts, articles, files, saving, search>>

\* the same request in two steps, between which other requests run: the
\* lookups ...
SaveLookup(w, op, tok, article_id) ==
    /\ saving[w].pc = "idle"
    /\ LET resp == SaveCheck(op, tok, article_id)
       IN IF NeedsInsert(resp)
          THEN /\ saving' = [saving EXCEPT ![w] =
                                [pc |-> "insert", op |-> op, token |-> tok,
                                 caller |-> resp.caller, article_id |-> article_id]]
               /\ UNCHANGED last
          ELSE /\ last' = Serialized(resp, {resp.bookmark} \ {NoBookmark})
               /\ UNCHANGED saving
    /\ UNCHANGED <<users, pending, now, issued, accounts, articles, files, saved, search>>

\* ... and db.add(saved_article); db.commit()
SaveInsert(w) ==
    /\ saving[w].pc = "insert"
    /\ LET p == saving[w]
           row == [id |-> NextSavedId(saved), user_id |-> p.caller.id,
                   article_id |-> p.article_id]
       IN /\ row.id <= MaxSavedId
          /\ saved' = saved \cup {row}
          /\ last' = Serialized([Resp(p.op, 200, "")
                                    EXCEPT !.token = p.token, !.caller = p.caller,
                                           !.article_id = p.article_id,
                                           !.bookmark = row], {row})
    /\ saving' = [saving EXCEPT ![w] = IdleSave]
    /\ UNCHANGED <<users, pending, now, issued, accounts, articles, files, search>>

\* DELETE /blog/unsave/{article_id}, DELETE /blog/{article_id}/unsave and
\* POST /blog/unsave/{article_id}
unsave_article(op, tok, article_id) ==
    /\ LET resp == [Authenticated(op, tok) EXCEPT !.article_id = article_id]
           existing == SavedFor(saved, resp.caller.id, article_id)
       IN IF resp.status # 200
          THEN last' = resp /\ UNCHANGED saved
          ELSE IF existing = {}
          THEN /\ last' = [resp EXCEPT
                             !.status = 404,
                             !.detail = IF op = "unsave_article"
                                        THEN "Saved article not found"
                                        ELSE "Article not in saved list"]
               /\ UNCHANGED saved
          ELSE /\ saved' = saved \ {FirstSaved(existing)}
               /\ last' = [resp EXCEPT !.detail = "Article removed from saved"]
    /\ UNCHANGED <<users, pending, now, issued, accounts, articles, files, saving, search>>

\* GET /blog/articles (skip = 0, limit = 100): the handler has no
\* get_current_user dependency; tok is what the request carries
read_articles(tok) ==
    /\ last' = [Resp("read_articles", 200, "")
                  EXCEPT !.token = tok, !.listing = {a.id : a \in articles}]
    /\ UNCHANGED <<users, pending, now, issued, accounts, articles, files, saved, saving, search>>

\* variant: a public listing without the is_published filter
get_all_articles_unfiltered(tok) ==
    /\ last' = [Resp("get_all_articles", 200, "")
                  EXCEPT !.token = tok, !.listing = {a.id : a \in articles}]
    /\ UNCHANGED <<users, pending, now, issued, accounts, articles, files, saved, saving, search>>

\* GET /blog: filter(is_published == True), no get_current_user dependency
get_all_articles(tok) ==
    /\ last' = [Resp("get_all_articles", 200, "")
                  EXCEPT !.token = tok,
                         !.listing = {a.id : a \in {x \in articles : x.is_published}}]
    /\ UNCHANGED <<users, pending, now, issued, accounts, articles, files, saved, saving, search>>

\* GET /blog/saved: filter(user_id == current_user.id).all(); the listing
\* holds the ids of the bookmark records in the body
read_saved_articles(tok) ==
    /\ LET resp == Authenticated("read_saved_articles", tok)
           rows == {s \in saved : s.user_id = resp.caller.id}
       IN last' = IF resp.status # 200
                  THEN resp
                  ELSE Serialized([resp EXCEPT !.listing = {s.id : s \in rows}], rows)
    /\ UNCHANGED <<users, pending, now, issued, accounts, articles, files, saved, saving, search>>

Save ==
    \E op \in SaveRoutes : \E tok \in BlogTokens(now) : \E i \in ArticleIdInputs :
        save_article(op, tok, i)

SaveStart ==
    \E w \in Workers : \E tok \in BlogTokens(now) : \E i \in ArticleIdInputs :
        SaveLookup(w, "save_article", tok, i)

SaveFinish == \E w \in Workers : SaveInsert(w)

Unsave ==
    \E op \in UnsaveRoutes : \E tok \in BlogTokens(now) : \E i \in ArticleIdInputs :
        unsave_article(op, tok, i)

ListAll == \E tok \in BlogTokens(now) : read_articles(tok)

ListPublished == \E tok \in BlogTokens(now) : get_all_articles(tok)

(***************************************************************************)
(* Bookmarks and listings, one request at a time.                          *)
(***************************************************************************)
NextContent == Save \/ Unsave \/ ListAll \/ ListPublished

SpecContent == InitContent /\ [][NextContent]_vars

(***************************************************************************)
(* Bookmarks with concurrent save requests.                                *)
(***************************************************************************)
NextSaveRace == SaveStart \/ SaveFinish \/ Unsave

SpecSaveRace == InitContent /\ [][NextSaveRace]_vars

(***************************************************************************)
(* Bookmarks of several principals, with the administrator deleting        *)
(* articles, one request at a time.                                        *)
(***************************************************************************)
PrincipalTokens(t) ==
    {NoToken}
    \cup {create_access_token(u.id, {Minutes(ACCESS_TOKEN_EXPIRE_MINUTES)}, t) :
              u \in {test_user, admin_user}}

SaveOwn ==
    \E op \in SaveRoutes : \E tok \in PrincipalTokens(now) : \E i \in ArticleIdInputs :
        save_article(op, tok, i)

UnsaveOwn ==
    \E op \in UnsaveRoutes : \E tok \in PrincipalTokens(now) : \E i \in ArticleIdInputs :
        unsave_article(op, tok, i)

ListSaved == \E tok \in PrincipalTokens(now) : read_saved_articles(tok)

DeleteAny ==
    \E tok \in PrincipalTokens(now) : \E i \in ArticleIdInputs : delete_article(tok, i)

NextBookmarks == SaveOwn \/ UnsaveOwn \/ ListSaved \/ DeleteAny

SpecBookmarks == InitContent /\ [][NextBookmarks]_vars

(***************************************************************************)
(* Updates of the imported articles, with bodies that name a field the     *)
(* update schema does not have.                                            *)
(***************************************************************************)
UpdateTitles == {{}, {TitleC}}
UpdateFlags == {{}, {TRUE}, {FALSE}}
UpdateSlugs == {{}, {{<<100>>}}, {{<<122>>}}}

UpdateAnyBody ==
    \E tok \in BlogTokens(now) : \E i \in ArticleIdInputs :
        \E t \in UpdateTitles : \E pub \in UpdateFlags : \E sl \in UpdateSlugs :
            update_article(tok, i, UpdateBody(t, pub, sl))

NextUpdate == UpdateAnyBody

SpecUpdate == InitContent /\ [][NextUpdate]_vars

(***************************************************************************)
(* Roles that change while a token is held.  The client logs in and keeps  *)
(* the token; the is_admin column of a row is then set or cleared (no      *)
(* handler of the API writes it: an edit of the users table made outside   *)
(* the API), and the kept token is presented to admin-gated handlers.      *)
(***************************************************************************)
SetAdmin(id, flag) ==
    /\ \E u \in UsersById(users, id) :
          /\ u.is_admin # flag
          /\ users' = (users \ {u}) \cup {[u EXCEPT !.is_admin = flag]}
    /\ UNCHANGED <<pending, now, issued, accounts, last, articles, files, saved, saving, search>>

ChangeRole == \E u \in SeedUsers : \E flag \in BOOLEAN : SetAdmin(u.id, flag)

DeleteHeld == \E i \in issued : \E a \in ArticleIdInputs : delete_article(i.token, a)

CreateHeld ==
    \E i \in issued : \E sl \in SlugInputs :
        create_article_simple(i.token, TitleAb, sl, TRUE)

NextRoles == LoginSeeded \/ Retain \/ ChangeRole \/ DeleteHeld \/ CreateHeld

SpecRoles == Init /\ [][NextRoles]_vars

(***************************************************************************)
(* The failures of the API side by side: logins, registrations one at a    *)
(* time, GET /auth/me and an admin-gated handler, with the tokens of the   *)
(* seeded principals and a token whose subject is no row of the store.     *)
(***************************************************************************)
UnknownSubjectToken(t) ==
    create_access_token(9, {Minutes(ACCESS_TOKEN_EXPIRE_MINUTES)}, t)

MeAny == \E tok \in BlogTokens(now) \cup {UnknownSubjectToken(now)} : GetSelf(tok)

NextFailures == LoginAny \/ RegisterAlone \/ InsertAlone \/ MeAny \/ Delete

SpecFailures == Init /\ [][NextFailures]_vars

(***************************************************************************)
(* Every handler of the API in one specification.  The credential store,   *)
(* the article store and the bookmarks are explored one at a time, each    *)
(* while the other two are as the import left them: the account handlers   *)
(* read and write the credential store alone, and the content handlers     *)
(* read it only through the gate.  The article handlers work on the        *)
(* articles they created, upload-image on an empty article store, the      *)
(* bookmark handlers on the imported articles, and the account handlers    *)
(* before the first content handler has answered.                          *)
(***************************************************************************)
AccountsUntouched == users = SeedUsers /\ \A w \in Workers : pending[w] = Idle

ArticlesUntouched == articles \in ImportedStores /\ files = {}

NothingImported == articles \cap {ImportedPublished, ImportedDraft} = {}

BookmarksUntouched == saved = {}

NextEverything ==
    \/ /\ articles = {} /\ files = {} /\ BookmarksUntouched
       /\ last.op \in {"none", "login", "register"}
       /\ (Register \/ Insert \/ LoginAny)
    \/ /\ AccountsUntouched /\ BookmarksUntouched /\ NothingImported /\ files = {}
       /\ (MeBlog \/ CreateSimple \/ Create \/ Update \/ Delete)
    \/ /\ AccountsUntouched /\ BookmarksUntouched /\ articles = {}
       /\ Upload
    \/ /\ AccountsUntouched /\ ArticlesUntouched
       /\ (Save \/ Unsave \/ ListAll \/ ListPublished)

SpecEverything == InitContent /\ [][NextEverything]_vars

(***************************************************************************)
(* Registration with a body that carries the is_active and is_admin fields *)
(* UserCreate inherits from UserBase, one request at a time, beside the    *)
(* logins and the article and bookmark handlers.  The content handlers run *)
(* on the credential store as it was loaded, and the account handlers      *)
(* before the first content handler has answered.                          *)
(***************************************************************************)
RegisterBodies ==
    [email : {EmailA, EmailUser}, password : {"pw1"}, full_name : {"A"},
     is_active : BOOLEAN, is_admin : BOOLEAN]

\* variant: a row that takes the two flags from the body
NewUser_from_body(id, user_in, salt) ==
    [id |-> id, email |-> NormalizeEmail(user_in.email), full_name |-> user_in.full_name,
     hashed_password |-> get_password_hash(user_in.password, salt),
     is_active |-> user_in.is_active, is_admin |-> user_in.is_admin, language |-> "it"]

\* models.User(email=..., hashed_password=..., full_name=..., is_active=True):
\* is_admin and language are left to the defaults of their columns
NewUser(id, user_in, salt) ==
    [id |-> id, email |-> NormalizeEmail(user_in.email), full_name |-> user_in.full_name,
     hashed_password |-> get_password_hash(user_in.password, salt),
     is_active |-> TRUE, is_admin |-> FALSE, language |-> "it"]

\* POST /auth/register, a whole request with no other request beside it
register_user(user_in) ==
    /\ \A w \in Workers : pending[w] = Idle
    /\ LET resp == [Resp("register", 200, "")
                      EXCEPT !.username = user_in.email, !.password = user_in.password,
                             !.full_name = user_in.full_name]
       IN IF ~EmailValid(user_in.email)
          THEN /\ last' = [resp EXCEPT !.status = 422,
                                       !.detail = "value is not a valid email address"]
               /\ UNCHANGED <<users, accounts>>
          ELSE IF UsersByEmail(users, NormalizeEmail(user_in.email)) # {}
          THEN /\ last' = [resp EXCEPT
                             !.status = 400,
                             !.detail = "The user with this username already exists in the system."]
               /\ UNCHANGED <<users, accounts>>
          ELSE \E salt \in Salts :
                 LET row == NewUser(NextUserId(users), user_in, salt)
                 IN /\ users' = users \cup {row}
                    /\ accounts' = accounts \cup
                           {[email |-> user_in.email, password |-> user_in.password,
                             id |-> row.id]}
                    /\ last' = [resp EXCEPT !.user = UserView(row)]
    /\ UNCHANGED <<pending, now, issued, articles, files, saved, saving, search>>

RegisterBody == \E user_in \in RegisterBodies : register_user(user_in)

NextGrant ==
    \/ /\ ArticlesUntouched /\ BookmarksUntouched
       /\ last.op \in {"none", "login", "register"}
       /\ (RegisterBody \/ LoginAny)
    \/ /\ AccountsUntouched
       /\ (DeleteAny \/ SaveOwn \/ UnsaveOwn)

SpecGrant == InitContent /\ [][NextGrant]_vars

SpecSearch == Init /\ [][NextSearch]_vars

(***************************************************************************)
(* Properties.                                                             *)
(***************************************************************************)
Seconds(t) == t \div TicksPerSecond

SignatureMismatch(tok) == tok.present /\ tok.wf /\ tok.key # SECRET_KEY
NotAJws(tok) == tok.present /\ ~tok.wf
SubjectMissing(tok) == tok.present /\ tok.wf /\ tok.sub.t = "absent"
SubjectNotInteger(tok) == tok.present /\ tok.wf /\ tok.sub.t = "str" /\ ~IsIntStr(tok.sub.v)
ExpiredAt(tok, t) == tok.present /\ tok.wf /\ tok.exp < Seconds(t)
SubjectId(tok) == IntOfStr(tok.sub.v)
WellSigned(tok) == tok.present /\ tok.wf /\ tok.key = SECRET_KEY
NamesPrincipal(tok) == tok.sub.t = "str" /\ IsIntStr(tok.sub.v)

ProtectedOps ==
    {"read_users_me", "create_article_simple", "create_article", "update_article",
     "delete_article", "upload_image"}
MutatingOps == ProtectedOps \ {"read_users_me"}

\* C1 as stated: a mutating article action with the valid token of a
\* non-admin principal is answered 403, and with the valid token of an admin
\* principal it succeeds.
C1_AdminAlwaysSucceeds ==
    (last.op \in MutatingOps /\ last.caller # NoUser)
    => last.status = (IF last.caller.is_admin THEN 200 ELSE 403)

\* C1 amended: a mutating article action with the valid token of a non-admin
\* principal is answered 403; with the valid token of an admin principal it
\* is never answered 403: it succeeds, or fails with 404 (update and delete
\* only), with 400 (upload-image only) or with 500 (the insert of a create
\* or the file write of an upload).
C1_AdminGate ==
    (last.op \in MutatingOps /\ last.caller # NoUser)
    => IF ~last.caller.is_admin
       THEN last.status = 403
       ELSE /\ last.status \in {200, 400, 404, 500}
            /\ last.status = 404 => last.op \in {"update_article", "delete_article"}
            /\ last.status = 400 => last.op = "upload_image"
            /\ last.status = 500 =>
                  last.op \in {"create_article_simple", "create_article", "upload_image"}

\* a non-admin is refused the update of an article that exists
C1_Witness ==
    /\ last.op = "update_article"
    /\ last.caller.id = test_user.id
    /\ last.status = 403
    /\ ArticlesById(articles, last.article_id) # {}

\* C2: after Register(e, p) succeeded once, Login(e, p) answers 200 with a
\* bearer token whose sub claim is the id of the registered principal, and
\* the gate resolves that token to the principal with that id and e-mail.
C2_LoginAfterRegister ==
    \A a \in accounts :
        (last.op = "login" /\ last.username = a.email /\ last.password = a.password)
        => /\ last.status = 200
           /\ last.access_token.sub = StrClaim(StrOfNat(a.id))
           /\ LET r == get_current_user(last.access_token, last.at, users)
              IN r.status = 200 /\ r.user.id = a.id /\ r.user.email = a.email

\* C3: a presented token with a signature mismatch, a malformed structure
\* (no JWS, or a well signed token whose sub is missing or not an integer)
\* or an exp in the past is answered 403 and yields no principal.
C3_InvalidTokenIs403 ==
    (/\ last.op = "read_users_me"
     /\ \/ SignatureMismatch(last.token)
        \/ NotAJws(last.token)
        \/ SubjectMissing(last.token)
        \/ SubjectNotInteger(last.token)
        \/ ExpiredAt(last.token, last.at))
    => last.status = 403 /\ last.user = NoUser

\* C4 as stated: a token issued with any negative lifetime for an existing
\* principal is answered 403 whenever it is presented afterwards.
C4_AnyNegativeLifetimeRejected ==
    \A i \in issued :
        (/\ last.op = "read_users_me"
         /\ last.token = i.token
         /\ \E d \in i.delta : d < 0
         /\ UsersById(users, SubjectId(i.token)) # {})
        => last.status = 403

\* C4 amended: a token issued with a lifetime of minus one second or less
\* for an existing principal is answered 403 whenever it is presented
\* afterwards.
C4_WholeSecondNegativeLifetimeRejected ==
    \A i \in issued :
        (/\ last.op = "read_users_me"
         /\ last.token = i.token
         /\ \E d \in i.delta : d <= -TicksPerSecond
         /\ UsersById(users, SubjectId(i.token)) # {})
        => last.status = 403 /\ last.user = NoUser

C4_Witness ==
    /\ last.op = "read_users_me"
    /\ last.status = 403
    /\ \E i \in issued :
          /\ last.token = i.token
          /\ i.delta = {-TicksPerSecond}
          /\ UsersById(users, SubjectId(i.token)) # {}
          /\ last.at > StartTime

\* C5: a well signed, unexpired token whose subject id is no record of the
\* store is answered 404 "User not found", and yields no principal.
C5_UnknownSubjectIs404 ==
    (/\ last.op = "read_users_me"
     /\ WellSigned(last.token)
     /\ ~ExpiredAt(last.token, last.at)
     /\ NamesPrincipal(last.token)
     /\ UsersById(users, SubjectId(last.token)) = {})
    => last.status = 404 /\ last.detail = "User not found" /\ last.user = NoUser

C5_Witness ==
    /\ last.op = "read_users_me"
    /\ last.status = 404
    /\ last.token.sub = StrClaim(<<57>>)
    /\ WellSigned(last.token)

C7_DuplicateRegister ==
    [][\A w \in Workers : \A e \in RegisterEmails :
         (/\ pending[w].pc = "idle"
          /\ \/ last' # last /\ last'.op = "register" /\ last'.username = e
             \/ pending'[w] # pending[w] /\ pending'[w].raw = e
          /\ EmailValid(e)
          /\ \E u \in users : u.email = NormalizeEmail(e))
         => \A p \in Passwords : \A n \in FullNames :
              RegisterLookup(w, e, p, n)
              => /\ last'.op = "register"
                 /\ last'.status = 400
                 /\ last'.detail = "The user with this username already exists in the system."
                 /\ users' = users
                 /\ pending' = pending]_vars

C7_Witness ==
    /\ last.op = "register"
    /\ last.status = 400
    /\ \E a \in accounts : a.password # last.password /\ a.email # last.username

\* C8: of two concurrent Registers with the same new e-mail one succeeds and
\* the other is answered 400; a Register with a valid e-mail has no other
\* failure.
C8_RaceLoserGetsDuplicateEmail ==
    (last.op = "register" /\ EmailValid(last.username))
    => \/ last.status = 200
       \/ /\ last.status = 400
          /\ last.detail = "The user with this username already exists in the system."

\* C9: no two records of the store have the same e-mail.
C9_EmailUnique ==
    \A u \in users : \A v \in users : u.email = v.email => u = v

\* two Registers of one e-mail both passed the lookup, and one was refused
C9_Witness ==
    /\ last.op = "register"
    /\ last.status = 500
    /\ \E u \in users : u.email = NormalizeEmail(last.username)

\* C10: a Login with an e-mail that is not in the store and a Login with a
\* wrong password for an e-mail that is in it get the same answer, 400
\* "Incorrect email or password" and no token, active account or not.
C10_UniformLoginFailure ==
    (/\ last.op = "login"
     /\ \A u \in users : u.email = last.username => u.hashed_password.digest # last.password)
    => /\ last.status = 400
       /\ last.detail = "Incorrect email or password"
       /\ last.access_token = NoToken

C10_Witness ==
    /\ last.op = "login"
    /\ last.username = EmailInactive
    /\ last.password = "pw2"
    /\ last.status = 400

\* C11: a Login for a principal whose is_active is false, with the correct
\* password, is answered 400 "Inactive user" and carries no token; a Login
\* that is answered with a token is for an active principal, and the token's
\* subject is that principal's id.
C11_InactiveNeverGetsToken ==
    last.op = "login"
    => /\ \A u \in users :
            (/\ u.email = last.username
             /\ verify_password(last.password, u.hashed_password)
             /\ ~u.is_active)
            => /\ last.status = 400
               /\ last.detail = "Inactive user"
               /\ last.access_token = NoToken
       /\ last.access_token.present
            => \E u \in users : /\ u.email = last.username
                                 /\ u.is_active
                                 /\ last.access_token.sub = StrClaim(StrOfNat(u.id))

C11_Witness ==
    /\ last.op = "login"
    /\ last.username = EmailInactive
    /\ verify_password(last.password, inactive_user.hashed_password)
    /\ last.detail = "Inactive user"

\* C12 as stated: a token minted at a successful login is accepted, and
\* yields its principal, at every instant not after its exp, whatever
\* happened since it was minted, and is rejected at every instant after exp.
C12_AcceptedUntilExpRejectedAfter ==
    \A i \in issued :
        (last.op = "read_users_me" /\ last.token = i.token)
        => IF last.at <= i.token.exp * TicksPerSecond
           THEN last.status = 200 /\ last.user.id = SubjectId(i.token)
           ELSE last.status = 403 /\ last.user = NoUser

\* C12 amended: a token minted at a successful login is accepted, and yields
\* its principal, at every instant before the end of the whole second of its
\* exp, whatever happened since it was minted (logins, a registration, the
\* principal's is_active cleared), and is rejected at every instant from
\* exp + 1 second on.
C12_AcceptedThroughExpSecond ==
    \A i \in issued :
        (last.op = "read_users_me" /\ last.token = i.token)
        => IF Seconds(last.at) <= i.token.exp
           THEN last.status = 200 /\ last.user.id = SubjectId(i.token)
           ELSE last.status = 403 /\ last.user = NoUser

\* the token of a principal deactivated after the login is still accepted
C12_Witness ==
    /\ last.op = "read_users_me"
    /\ last.status = 200
    /\ \E i \in issued : last.token = i.token
    /\ \E u \in users : u.id = last.user.id /\ ~u.is_active
    /\ last.at > StartTime
    /\ accounts # {}

\* C13: with one request at a time, a save by an authenticated principal of
\* an article that exists succeeds and leaves exactly one bookmark of that
\* (user, article) pair, which it returns; a save that follows a successful
\* save of the same pair succeeds too, returns the same record and leaves
\* the store as it was.
C13_SaveIdempotent ==
    [][/\ (/\ last'.op \in SaveRoutes
           /\ last'.caller # NoUser
           /\ ArticlesById(articles, last'.article_id) # {})
          => /\ last'.status = 200
             /\ SavedFor(saved', last'.caller.id, last'.article_id) = {last'.bookmark}
       /\ (/\ last.op \in SaveRoutes
           /\ last.status = 200
           /\ last'.op \in SaveRoutes
           /\ last'.caller = last.caller
           /\ last'.article_id = last.article_id)
          => /\ last'.status = 200
             /\ last'.bookmark = last.bookmark
             /\ saved' = saved]_vars

\* C14: in every reachable state, also when save requests of one principal
\* for one article interleave their lookups and inserts, the store holds at
\* most one bookmark per (user_id, article_id) pair.
C14_BookmarkUnique ==
    \A s1 \in saved : \A s2 \in saved :
        (s1.user_id = s2.user_id /\ s1.article_id = s2.article_id) => s1 = s2

\* C15: listing all articles, saving and unsaving are rejected, with no
\* article data in the answer, unless the request carries a valid token, and
\* are allowed to a principal that is not an admin.
C15_ListSaveUnsaveNeedToken ==
    last.op \in {"read_articles"} \cup SaveRoutes \cup UnsaveRoutes
    => IF /\ WellSigned(last.token)
          /\ ~ExpiredAt(last.token, last.at)
          /\ NamesPrincipal(last.token)
          /\ UsersById(users, SubjectId(last.token)) # {}
       THEN last.status \notin {401, 403}
       ELSE /\ last.status \in {401, 403}
            /\ last.listing = {}
            /\ last.bookmark = NoBookmark

\* C16: GET /blog is answered 200 whatever token the request carries or
\* lacks, and lists exactly the published articles of the store: every
\* published article is listed, and nothing else is.
C16_PublicListingIsPublished ==
    last.op = "get_all_articles"
    => /\ last.status = 200
       /\ \A a \in articles : a.is_published => a.id \in last.listing
       /\ \A i \in last.listing : \E a \in articles : a.id = i /\ a.is_published

C16_Witness ==
    /\ last.op = "get_all_articles"
    /\ ~last.token.present
    /\ articles = {ImportedPublished, ImportedDraft}
    /\ last.listing = {ImportedPublished.id}
    /\ saved # {}

\* the error kind of the last response, read off the request and the
\* store: what was asked and why it could not be served
ErrorKind ==
    IF last.op = "login"
    THEN LET found == UsersByEmail(users, last.username)
         IN IF \A u \in found : ~verify_password(last.password, u.hashed_password)
            THEN "InvalidCredentials"
            ELSE IF \A u \in found : ~u.is_active
            THEN "InactiveAccount"
            ELSE "none"
    ELSE IF last.op = "register"
    THEN IF EmailValid(last.username) /\ last.user = NoUser
         THEN "DuplicateEmail"
         ELSE "none"
    ELSE IF last.op \in ProtectedOps /\ last.token.present
    THEN IF \/ ~WellSigned(last.token)
            \/ ExpiredAt(last.token, last.at)
            \/ ~NamesPrincipal(last.token)
         THEN "Unauthenticated"
         ELSE IF UsersById(users, SubjectId(last.token)) = {}
         THEN "PrincipalNotFound"
         ELSE IF /\ last.op \in MutatingOps
                 /\ \A u \in UsersById(users, SubjectId(last.token)) : ~u.is_admin
         THEN "Forbidden"
         ELSE "none"
    ELSE "none"

KindStatus(kind) ==
    CASE kind = "InvalidCredentials" -> 400
      [] kind = "InactiveAccount" -> 400
      [] kind = "DuplicateEmail" -> 400
      [] kind = "Unauthenticated" -> 403
      [] kind = "PrincipalNotFound" -> 404
      [] kind = "Forbidden" -> 403

C18_SuppliedTtlIsEncoded ==
    [][\A s \in Subjects : \A d \in Deltas :
         IssueToken(s, d)
         => /\ last'.access_token.sub = StrClaim(StrOfNat(s))
            /\ last'.access_token.exp =
                  Seconds(now + (IF d = {} THEN Minutes(ACCESS_TOKEN_EXPIRE_MINUTES)
                                 ELSE CHOOSE x \in d : TRUE))]_vars

\* C19: the credential store changes only by a successful Register, which
\* adds exactly one record with a new id and returns it; no other step
\* (Login, GetSelf and the gate of every protected call, the article and
\* bookmark handlers, a failed Register) changes the store, and no step
\* removes a record or changes a record's id.
C19_OnlyRegisterWritesUsers ==
    [][/\ users' # users
          => /\ last'.op = "register"
             /\ last'.status = 200
             /\ users \subseteq users'
             /\ \E row \in users' \ users :
                   /\ users' = users \cup {row}
                   /\ \A u \in users : u.id # row.id
                   /\ last'.user = UserView(row)
       /\ (last' # last /\ last'.op = "register" /\ last'.status # 200)
          => users' = users]_vars

C19_Witness ==
    /\ last.op = "register"
    /\ last.status = 200
    /\ Cardinality(users) = Cardinality(SeedUsers) + 1
    /\ \E u \in users : UserView(u) = last.user /\ u \notin SeedUsers

\* C20: every principal of the store has a non-empty display name (Register
\* turns away a request whose display name is empty).
C20_DisplayNameNonEmpty == \A u \in users : u.full_name # ""


\* C21: no two articles share a slug, and a create request by an
\* administrator, duplicate slug included, ends in a handled response
\* (success or a 400/409 client error)
C21_DuplicateSlugHandled ==
    /\ \A a, b \in articles : (a.slug # {} /\ a.slug = b.slug) => a = b
    /\ (last.op \in {"create_article", "create_article_simple"} /\ last.caller.is_admin)
           => last.status \in {200, 400, 409}


\* C22: every bookmark record refers to an article that exists; after a
\* successful delete_article no bookmark of the deleted article remains
C22_BookmarksReferToArticles ==
    \A s \in saved : ArticlesById(articles, s.article_id) # {}


\* C23: an update that succeeds changes, in the article it names, the fields
\* the body supplies among those of the update schema, to the supplied
\* values, and nothing else: id, slug, author_id, the fields not supplied and
\* every other article stay as they were, also when the body names slug
C23_UpdateFrame ==
    [][(last' # last /\ last'.op = "update_article" /\ last'.status = 200)
       => \A t \in UpdateTitles : \A pub \in UpdateFlags : \A sl \in UpdateSlugs :
              update_article(last'.token, last'.article_id, UpdateBody(t, pub, sl))
              => \E a \in articles : \E b \in articles' :
                    /\ a.id = last'.article_id
                    /\ articles' \ {b} = articles \ {a}
                    /\ b.id = a.id /\ b.slug = a.slug /\ b.author_id = a.author_id
                    /\ b.title = (IF t = {} THEN a.title ELSE CHOOSE x \in t : TRUE)
                    /\ b.is_published =
                           (IF pub = {} THEN a.is_published ELSE CHOOSE x \in pub : TRUE)]_vars

\* an update changed the title and the flag of the published import and
\* left its slug and the other article alone
C23_Witness ==
    /\ last.op = "update_article"
    /\ last.status = 200
    /\ last.article_id = ImportedPublished.id
    /\ [ImportedPublished EXCEPT !.title = TitleC, !.is_published = FALSE] \in articles
    /\ ImportedDraft \in articles


\* C24: an admin-gated request made with a token issued earlier is decided
\* by the is_admin flag the principal's record has in the store when the
\* request is made: it is refused as Forbidden exactly when that flag is
\* false, whatever the flag was when the token was issued
C24_RoleReadAtRequest ==
    [][(/\ users' = users
        /\ last'.op \in {"delete_article", "create_article_simple"}
        /\ \E i \in issued : i.token = last'.token)
       => \E u \in UsersById(users, SubjectId(last'.token)) :
             /\ last'.caller = UserView(u)
             /\ (last'.status = 403) <=> ~u.is_admin]_vars

\* the token issued to the administrator at login is refused by
\* delete_article after the flag of the row was cleared
C24_Witness ==
    /\ last.op = "delete_article"
    /\ \E i \in issued : i.token = last.token
    /\ SubjectId(last.token) = admin_user.id
    /\ last.status = 403
    /\ last.detail = "Only admins can delete articles"
    /\ \E u \in UsersById(users, admin_user.id) : ~u.is_admin


\* C25: a save, unsave or list-saved request adds, removes and returns only
\* bookmark records whose user_id is the id of the authenticated principal
\* that made the request
C25_BookmarksSelfScoped ==
    [][last'.op \in SaveRoutes \cup UnsaveRoutes \cup {"read_saved_articles"}
       => /\ \A s \in (saved' \ saved) \cup (saved \ saved') :
                last'.caller # NoUser /\ s.user_id = last'.caller.id
          /\ \A i \in last'.listing :
                \E s \in saved : s.id = i /\ s.user_id = last'.caller.id
          /\ last'.bookmark # NoBookmark => last'.bookmark.user_id = last'.caller.id]_vars

\* two principals bookmarked one article, and the unsave of one of them
\* left the record of the other
C25_Witness ==
    /\ last.op \in UnsaveRoutes
    /\ last.status = 200
    /\ last.caller.id = test_user.id
    /\ saved # {}
    /\ \A s \in saved : s.user_id = admin_user.id /\ s.article_id = last.article_id


\* C26: a save by an authenticated principal of an article id that does
\* not exist is answered 404, and so is an unsave of a (principal, article)
\* pair that has no bookmark; a bookmark request answered 404 leaves the
\* bookmark store as it was
C26_FailedBookmarkOpChangesNothing ==
    [][/\ (/\ last'.op \in SaveRoutes
           /\ last'.caller # NoUser
           /\ ArticlesById(articles, last'.article_id) = {})
          => last'.status = 404 /\ saved' = saved
       /\ (/\ last'.op \in UnsaveRoutes
           /\ last'.caller # NoUser
           /\ SavedFor(saved, last'.caller.id, last'.article_id) = {})
          => last'.status = 404 /\ saved' = saved
       /\ (last'.op \in SaveRoutes \cup UnsaveRoutes /\ last'.status = 404)
          => saved' = saved]_vars

\* an unsave of an article that only another principal has bookmarked was
\* answered 404 and that bookmark is in the store
C26_Witness ==
    /\ last.op = "unsave_article_post"
    /\ last.status = 404
    /\ last.detail = "Article not in saved list"
    /\ \E s \in saved : s.article_id = last.article_id /\ s.user_id # last.caller.id
    /\ SavedFor(saved, last.caller.id, last.article_id) = {}


\* C27: after a successful unsave of article a by principal u, through any
\* unsave route and whatever saves came before, the store holds no
\* bookmark of a for u, so the saved list of u has no record for a
C27_UnsaveClearsSavedList ==
    (last.op \in UnsaveRoutes /\ last.status = 200)
    => SavedFor(saved, last.caller.id, last.article_id) = {}


\* C28: an authenticated principal that is not an administrator gets 403
\* from update_article, delete_article and upload_image whatever the
\* article id or the content type of the upload: never 404 or 400
C28_RoleCheckedFirst ==
    (/\ last.op \in {"update_article", "delete_article", "upload_image"}
     /\ last.caller # NoUser
     /\ ~last.caller.is_admin)
    => /\ last.status = 403
       /\ last.detail \in {"Only admins can update articles",
                           "Only admins can delete articles",
                           "Only admins can upload images"}

\* a principal that is not an administrator was refused the delete of an
\* article id that is not in the store
C28_Witness ==
    /\ last.op = "delete_article"
    /\ last.caller = UserView(test_user)
    /\ last.status = 403
    /\ ArticlesById(articles, last.article_id) = {}


\* C29: a row that a request adds to the credential store has is_admin
\* false and is_active true, whatever the two fields of the request body
\* say, and no register, login, article or bookmark request changes the
\* is_admin flag of a row that is in the store
C29_NoRequestGrantsAdmin ==
    [][/\ \A row \in users' \ {u \in users' : \E v \in users : v.id = u.id} :
             ~row.is_admin /\ row.is_active
       /\ \A u \in users : \E v \in users' : v.id = u.id /\ v.is_admin = u.is_admin]_vars

\* a registration went through and its principal is active and no
\* administrator
C29_Witness ==
    /\ last.op = "register"
    /\ last.status = 200
    /\ last.user.id \notin {u.id : u \in SeedUsers}
    /\ \E u \in UsersById(users, last.user.id) : ~u.is_admin /\ u.is_active


====
